---- MODULE Spec2Model ----
(***************************************************************************)
(* EchoLearn backend (src/main.py): the HTTP handlers of the FastAPI app,  *)
(* the keyword intent classifier of POST /api/interpret, its best-effort   *)
(* persistence call and the /test diagnostic.                              *)
(*                                                                         *)
(* Strings that the code inspects character by character (the transcript,  *)
(* the keywords, an exception's text) are sequences of one-character       *)
(* strings; strings the code only passes along are TLA+ strings.  An       *)
(* Optional value is a sequence of length 0 (None) or 1 (the value).       *)
(***************************************************************************)
EXTENDS Integers, Sequences, FiniteSets, TLC

(* ------------------------------------------------------------------ *)
(* Bounds of the model                                                 *)
(* ------------------------------------------------------------------ *)

\* number of tokens concatenated into a generated transcript
MaxTokens == 2

\* longest exception text the database collaborator raises
MaxErrLen == 52

\* largest number of collections the database reports
MaxCollections == 12

(* ------------------------------------------------------------------ *)
(* Program constants                                                   *)
(* ------------------------------------------------------------------ *)

\* str(e)[:50]
ErrTrunc == 50

\* collections[:10]
CollLimit == 10

\* confidence=0.72, in hundredths
Confidence == 72

\* InterpretResponse.confidence default 0.7, in hundredths
DefaultConfidence == 70

(* ------------------------------------------------------------------ *)
(* Python string operations                                            *)
(* ------------------------------------------------------------------ *)

None == <<>>

Some(v) == <<v>>

UpperCase == <<"A","B","C","D","E","F","G","H","I","J","K","L","M",
               "N","O","P","Q","R","S","T","U","V","W","X","Y","Z">>

LowerCase == <<"a","b","c","d","e","f","g","h","i","j","k","l","m",
               "n","o","p","q","r","s","t","u","v","w","x","y","z">>

\* the characters str.strip() removes
Whitespace == {" ", "\t", "\n", "\r", "\f"}

LowerChar(c) ==
    IF \E i \in 1..Len(UpperCase) : UpperCase[i] = c
    THEN LowerCase[CHOOSE i \in 1..Len(UpperCase) : UpperCase[i] = c]
    ELSE c

\* str.lower()
Lower(s) == [i \in 1..Len(s) |-> LowerChar(s[i])]

\* a mutant of Strip: the transcript is used as received
StripNothing(s) == s

\* str.strip(): drop leading and trailing whitespace
Strip(s) ==
    LET keep == {i \in 1..Len(s) : s[i] \notin Whitespace}
    IN  IF keep = {} THEN <<>>
        ELSE LET first == CHOOSE i \in keep : \A j \in keep : i <= j
                 last  == CHOOSE i \in keep : \A j \in keep : j <= i
             IN  SubSeq(s, first, last)

\* w in s  (substring test)
Contains(s, w) ==
    \E i \in 1..(Len(s) - Len(w) + 1) : SubSeq(s, i, i + Len(w) - 1) = w

\* any(w in s for w in ws)
AnyIn(s, ws) == \E k \in 1..Len(ws) : Contains(s, ws[k])

\* s[:n]
Take(s, n) == SubSeq(s, 1, IF Len(s) < n THEN Len(s) ELSE n)

(* ------------------------------------------------------------------ *)
(* The keyword lists and canned responses of interpret                 *)
(* ------------------------------------------------------------------ *)

kwStart == <<"s","t","a","r","t">>
kwBegin == <<"b","e","g","i","n">>
kwGo == <<"g","o">>
kwList == <<"l","i","s","t">>
kwLesson == <<"l","e","s","s","o","n">>
kwMath == <<"m","a","t","h">>
kwAdd == <<"a","d","d">>
kwSubtract == <<"s","u","b","t","r","a","c","t">>
kwPlus == <<"p","l","u","s">>
kwMinus == <<"m","i","n","u","s">>
kwStop == <<"s","t","o","p">>
kwEnd == <<"e","n","d">>
kwPause == <<"p","a","u","s","e">>
kwHello == <<"h","e","l","l","o">>
kwHi == <<"h","i">>
kwHey == <<"h","e","y">>

StartWords == <<kwStart, kwBegin, kwGo>>

MathWords == <<kwMath, kwAdd, kwSubtract, kwPlus, kwMinus>>

StopWords == <<kwStop, kwEnd, kwPause>>

GreetWords == <<kwHello, kwHi, kwHey>>

DefaultText == "I heard you. How can I assist with your learning today?"

StartText == "Starting your learning session. Which lesson would you like? Say 'list lessons' to hear options."

ListText == "The lessons available are: Voice Control Basics, Math Fundamentals, and Science Reading Comprehension."

MathText == "Let's practice math. What is three plus five?"

StopText == "Okay, pausing. Say 'resume' when you're ready."

GreetText == "Hello! I'm Echo, your hands-free tutor. How can I help?"

\* a mutant of Classify: the greeting test comes first
ClassifyGreetingFirst(lower) ==
    IF AnyIn(lower, GreetWords)
    THEN [intent |-> "greeting", response_text |-> GreetText]
    ELSE IF AnyIn(lower, StartWords)
    THEN [intent |-> "session.start", response_text |-> StartText]
    ELSE IF Contains(lower, kwList) /\ Contains(lower, kwLesson)
    THEN [intent |-> "lesson.list", response_text |-> ListText]
    ELSE IF AnyIn(lower, MathWords)
    THEN [intent |-> "lesson.math", response_text |-> MathText]
    ELSE IF AnyIn(lower, StopWords)
    THEN [intent |-> "session.stop", response_text |-> StopText]
    ELSE [intent |-> "general.query", response_text |-> DefaultText]

\* a mutant of Classify: the fallback carries a label outside the fixed set
ClassifyUnknownDefault(lower) ==
    IF AnyIn(lower, StartWords)
    THEN [intent |-> "session.start", response_text |-> StartText]
    ELSE IF Contains(lower, kwList) /\ Contains(lower, kwLesson)
    THEN [intent |-> "lesson.list", response_text |-> ListText]
    ELSE IF AnyIn(lower, MathWords)
    THEN [intent |-> "lesson.math", response_text |-> MathText]
    ELSE IF AnyIn(lower, StopWords)
    THEN [intent |-> "session.stop", response_text |-> StopText]
    ELSE IF AnyIn(lower, GreetWords)
    THEN [intent |-> "greeting", response_text |-> GreetText]
    ELSE [intent |-> "unknown", response_text |-> DefaultText]

\* the if/elif chain of interpret over the lower-cased transcript
Classify(lower) ==
    IF AnyIn(lower, StartWords)
    THEN [intent |-> "session.start", response_text |-> StartText]
    ELSE IF Contains(lower, kwList) /\ Contains(lower, kwLesson)
    THEN [intent |-> "lesson.list", response_text |-> ListText]
    ELSE IF AnyIn(lower, MathWords)
    THEN [intent |-> "lesson.math", response_text |-> MathText]
    ELSE IF AnyIn(lower, StopWords)
    THEN [intent |-> "session.stop", response_text |-> StopText]
    ELSE IF AnyIn(lower, GreetWords)
    THEN [intent |-> "greeting", response_text |-> GreetText]
    ELSE [intent |-> "general.query", response_text |-> DefaultText]

(* ------------------------------------------------------------------ *)
(* Requests the clients send                                           *)
(* ------------------------------------------------------------------ *)

sp == <<" ">>

\* pieces a generated transcript is concatenated from; "h" and "i" match
\* nothing alone and form "hi" across a boundary, "Go" needs lower-casing,
\* "x" matches nothing
Tokens ==
    { sp, <<"G","o">>, kwStart, kwList, kwLesson, kwMath, kwEnd,
      kwHello, kwHi, <<"h">>, <<"i">>, <<"x">> }

RECURSIVE Concats(_)
Concats(n) ==
    IF n = 0 THEN {<<>>}
    ELSE LET shorter == Concats(n - 1)
         IN  shorter \cup {a \o t : a \in shorter, t \in Tokens}

\* "hello, let's start math"
HelloStartMath ==
    kwHello \o <<",", " ">> \o <<"l","e","t","'","s">> \o sp \o kwStart \o sp \o kwMath

\* "what is 2 plus 2"
WhatIsTwoPlusTwo ==
    <<"w","h","a","t"," ","i","s"," ","2"," ">> \o kwPlus \o <<" ","2">>

\* "   "
ThreeSpaces == <<" ", " ", " ">>

Examples ==
    { HelloStartMath, WhatIsTwoPlusTwo, ThreeSpaces,
      <<"\t", "\n">>,
      <<" ", "\t">> \o kwHey \o <<"\n">>,
      <<"H","E","L","L","O">>,
      kwBegin, kwAdd, kwSubtract, kwMinus, kwStop, kwPause,
      <<"P","a","u","s","e"," ">>,
      kwList \o sp \o kwLesson \o <<"s">>,
      kwLesson \o sp \o kwList \o sp \o kwMath,
      <<"f","r","i","e","n","d">>,
      <<"t","h","a","n","k","s">>,
      <<"o","k","a","y">> }

Transcripts == Concats(MaxTokens) \cup Examples

Users == {None, Some("u1")}

Contexts == {None, Some([lesson |-> "math-fundamentals"])}

\* JSON bodies of POST /api/interpret: with a transcript, and without the field
Bodies ==
    {[user_id |-> u, transcript |-> t, context |-> c] :
        u \in Users, t \in Transcripts, c \in Contexts}
    \cup {[user_id |-> u, context |-> c] : u \in Users, c \in Contexts}

(* ------------------------------------------------------------------ *)
(* The database collaborator, as the handlers meet it                  *)
(* ------------------------------------------------------------------ *)

\* what "from database import ..." does: the module is missing (ImportError),
\* importing it raises another error, it imports with db = None, it imports
\* with a live db
DbModes == {"no_module", "import_error", "none", "up"}

\* the text of an exception, by its length
ErrText(n) == [i \in 1..n |-> "e"]

ErrLens == {0, 1, ErrTrunc - 1, ErrTrunc, ErrTrunc + 1, MaxErrLen}

\* the names db.list_collection_names() returns
CollNames(n) == [i \in 1..n |-> "c" \o ToString(i)]

CollCounts == {0, 1, CollLimit, CollLimit + 1, MaxCollections}

\* values of datetime.now(timezone.utc)
Timestamps == {"t1", "t2"}

(* ------------------------------------------------------------------ *)
(* State                                                               *)
(* ------------------------------------------------------------------ *)

VARIABLES
    pc,             \* "idle"; inside interpret at "persist" / "return"; "done" once
                    \* the handler has produced its response
    req,            \* the request being handled, or the last one handled
    transcript,     \* interpret's local: the trimmed transcript
    intent,         \* interpret's local
    response_text,  \* interpret's local
    calls,          \* the create_document calls made for req, in order
    outcome,        \* what the database collaborator did for req
    resp,           \* the HTTP response to req; status 0 while there is none
    dbMode          \* the state of the database collaborator

vars == <<pc, req, transcript, intent, response_text, calls, outcome, resp, dbMode>>

EmptyDict == <<>>

NoResp == [status |-> 0]

NoOutcome == [import |-> "", call |-> "", errlen |-> 0, ncoll |-> 0]

\* a handler that is not interpret leaves interpret's locals unset
NoLocals ==
    /\ transcript' = <<>>
    /\ intent' = ""
    /\ response_text' = ""
    /\ calls' = <<>>

Init ==
    /\ pc = "idle"
    /\ req = [path |-> ""]
    /\ transcript = <<>>
    /\ intent = ""
    /\ response_text = ""
    /\ calls = <<>>
    /\ outcome = NoOutcome
    /\ resp = NoResp
    /\ dbMode \in DbModes

(* ------------------------------------------------------------------ *)
(* GET /, GET /api/hello, GET /api/lessons                             *)
(* ------------------------------------------------------------------ *)

read_root ==
    /\ pc = "idle"
    /\ req' = [path |-> "/"]
    /\ resp' = [status |-> 200, body |-> [message |-> "EchoLearn Backend Running"]]
    /\ outcome' = NoOutcome
    /\ NoLocals
    /\ pc' = "done"
    /\ UNCHANGED dbMode

hello ==
    /\ pc = "idle"
    /\ req' = [path |-> "/api/hello"]
    /\ resp' = [status |-> 200, body |-> [message |-> "Hello from EchoLearn backend!"]]
    /\ outcome' = NoOutcome
    /\ NoLocals
    /\ pc' = "done"
    /\ UNCHANGED dbMode

\* Lesson(id, title, description, level, topics)
Lesson(id, title, description, level, topics) ==
    [id |-> id, title |-> title, description |-> description,
     level |-> level, topics |-> topics]

VoiceBasics ==
    Lesson("voice-basics", "Voice Control Basics",
           "Learn to navigate EchoLearn using your voice.", "beginner",
           <<"speech-to-text", "commands", "accessibility">>)

MathFundamentals ==
    Lesson("math-fundamentals", "Math Fundamentals",
           "Practice arithmetic hands-free with guided prompts.", "beginner",
           <<"numbers", "addition", "subtraction">>)

ScienceReading ==
    Lesson("science-reading", "Science Reading Comprehension",
           "Listen to short passages and answer questions by voice.", "intermediate",
           <<"comprehension", "listening">>)

\* a mutant of Lessons: the catalog sorted by id
LessonsSortedById == <<MathFundamentals, ScienceReading, VoiceBasics>>

\* the list built by list_lessons
Lessons == <<VoiceBasics, MathFundamentals, ScienceReading>>

list_lessons ==
    /\ pc = "idle"
    /\ req' = [path |-> "/api/lessons"]
    /\ resp' = [status |-> 200, body |-> Lessons]
    /\ outcome' = NoOutcome
    /\ NoLocals
    /\ pc' = "done"
    /\ UNCHANGED dbMode

(* ------------------------------------------------------------------ *)
(* GET /test                                                           *)
(* ------------------------------------------------------------------ *)

\* the "database" field: a fixed text followed by the (truncated) error text
Field(text, detail) == [text |-> text, detail |-> detail]

\* a mutant of Truncated: the whole error text is rendered
Untruncated(e) == e

\* str(e)[:50]
Truncated(e) == Take(e, ErrTrunc)

\* a mutant of FirstCollections: every name is reported
AllCollections(names) == names

\* collections[:10]
FirstCollections(names) == Take(names, CollLimit)

\* the response dict of test_database after its try block (lines 53-83), given
\* what the import did (mode), whether db has a name, whether
\* list_collection_names raised, the names it returned and the error raised.
\* The texts are the code's without their leading status symbol.
ProbeDatabase(mode, hasName, listRaises, names, err) ==
    LET initial ==
            [backend |-> "Running",
             database |-> Field("Not Available", <<>>),
             database_url |-> "None",
             database_name |-> "None",
             connection_status |-> "Not Connected",
             collections |-> <<>>]
        connected ==
            [initial EXCEPT
                !.database = Field("Available", <<>>),
                !.database_url = "Configured",
                !.database_name = IF hasName THEN "db.name" ELSE "Connected",
                !.connection_status = "Connected"]
    IN  CASE mode = "no_module" ->
                [initial EXCEPT !.database = Field("Database module not found", <<>>)]
          [] mode = "import_error" ->
                [initial EXCEPT !.database = Field("Error: ", Truncated(err))]
          [] mode = "none" ->
                [initial EXCEPT !.database = Field("Available but not initialized", <<>>)]
          [] mode = "up" /\ listRaises ->
                [connected EXCEPT
                    !.database = Field("Connected but Error: ", Truncated(err))]
          [] mode = "up" /\ ~listRaises ->
                [connected EXCEPT
                    !.collections = FirstCollections(names),
                    !.database = Field("Connected & Working", <<>>)]

\* lines 85-87: the two environment variables overwrite what the probe wrote
ReportEnv(response, urlSet, nameSet) ==
    [response EXCEPT
        !.database_url = IF urlSet THEN "Set" ELSE "Not Set",
        !.database_name = IF nameSet THEN "Set" ELSE "Not Set"]

test_database ==
    /\ pc = "idle"
    /\ \E hasName \in BOOLEAN, listRaises \in BOOLEAN, n \in CollCounts,
          len \in ErrLens, urlSet \in BOOLEAN, nameSet \in BOOLEAN :
          /\ resp' = [status |-> 200,
                      body |-> ReportEnv(
                          ProbeDatabase(dbMode, hasName, listRaises,
                                        CollNames(n), ErrText(len)),
                          urlSet, nameSet)]
          /\ outcome' =
                [import |-> dbMode,
                 call |-> IF dbMode # "up" THEN "none"
                          ELSE IF listRaises THEN "raised" ELSE "returned",
                 errlen |-> len,
                 ncoll |-> n]
    /\ req' = [path |-> "/test"]
    /\ NoLocals
    /\ pc' = "done"
    /\ UNCHANGED dbMode

(* ------------------------------------------------------------------ *)
(* POST /api/interpret                                                 *)
(* ------------------------------------------------------------------ *)

\* the request body fits InterpretRequest: transcript is a required field
BodyValid(body) == "transcript" \in DOMAIN body

\* req.context or {}
OrEmpty(context) == IF context = None THEN EmptyDict ELSE context[1]

\* a mutant of MakeDoc: the record carries the transcript as received
MakeDocRaw(body, trimmed, label, text, now) ==
    [user_id |-> body.user_id,
     transcript |-> body.transcript,
     intent |-> label,
     ai_response |-> text,
     context |-> OrEmpty(body.context),
     created_at |-> now]

\* the interaction record, lines 154-161
MakeDoc(body, trimmed, label, text, now) ==
    [user_id |-> body.user_id,
     transcript |-> trimmed,
     intent |-> label,
     ai_response |-> text,
     context |-> OrEmpty(body.context),
     created_at |-> now]

Call(doc, result) == [collection |-> "interaction", document |-> doc, result |-> result]

\* a mutant of TryPersist: only ImportError is caught
TryPersistCatchImportOnly(doc, mode, raises) ==
    CASE mode = "no_module" ->
            [calls |-> <<>>, import |-> mode, call |-> "none", propagates |-> FALSE]
      [] mode = "import_error" ->
            [calls |-> <<>>, import |-> mode, call |-> "none", propagates |-> TRUE]
      [] OTHER ->
            [calls |-> <<Call(doc, IF raises THEN "raised" ELSE "returned")>>,
             import |-> "imported",
             call |-> IF raises THEN "raised" ELSE "returned",
             propagates |-> raises]

\* a mutant of TryPersist: a call that raised is made a second time
TryPersistRetry(doc, mode, raises) ==
    CASE mode \in {"no_module", "import_error"} ->
            [calls |-> <<>>, import |-> mode, call |-> "none", propagates |-> FALSE]
      [] OTHER ->
            [calls |-> IF raises
                       THEN <<Call(doc, "raised"), Call(doc, "raised")>>
                       ELSE <<Call(doc, "returned")>>,
             import |-> "imported",
             call |-> IF raises THEN "raised" ELSE "returned",
             propagates |-> FALSE]

\* the try/except of lines 152-165: the import, then one create_document call;
\* every Exception is swallowed, so nothing propagates
TryPersist(doc, mode, raises) ==
    CASE mode \in {"no_module", "import_error"} ->
            [calls |-> <<>>, import |-> mode, call |-> "none", propagates |-> FALSE]
      [] OTHER ->
            [calls |-> <<Call(doc, IF raises THEN "raised" ELSE "returned")>>,
             import |-> "imported",
             call |-> IF raises THEN "raised" ELSE "returned",
             propagates |-> FALSE]

\* a mutant of MakeResponse: confidence and metadata are left to the model defaults
MakeResponseDefaults(text, label) ==
    [ai_response |-> text, intent |-> label,
     confidence |-> DefaultConfidence, metadata |-> EmptyDict]

\* InterpretResponse(ai_response=..., intent=..., confidence=0.72, metadata={})
MakeResponse(text, label) ==
    [ai_response |-> text, intent |-> label,
     confidence |-> Confidence, metadata |-> EmptyDict]

\* The request arrives.  A body that does not fit InterpretRequest is answered
\* 422 by the framework and interpret is not called.  Otherwise interpret runs
\* lines 127-149: trim, reject a blank transcript, classify.
interpret_begin ==
    /\ pc = "idle"
    /\ \E body \in Bodies :
          /\ req' = [path |-> "/api/interpret", body |-> body]
          /\ IF ~BodyValid(body)
             THEN /\ resp' = [status |-> 422,
                              body |-> [detail |-> "transcript: field required"]]
                  /\ transcript' = <<>>
                  /\ intent' = ""
                  /\ response_text' = ""
                  /\ pc' = "done"
             ELSE LET trimmed == Strip(body.transcript)
                      found == Classify(Lower(trimmed))
                  IN  IF trimmed = <<>>
                      THEN /\ resp' = [status |-> 400,
                                       body |-> [detail |-> "Transcript is required"]]
                           /\ transcript' = trimmed
                           /\ intent' = ""
                           /\ response_text' = ""
                           /\ pc' = "done"
                      ELSE /\ resp' = NoResp
                           /\ transcript' = trimmed
                           /\ intent' = found.intent
                           /\ response_text' = found.response_text
                           /\ pc' = "persist"
    /\ outcome' = NoOutcome
    /\ calls' = <<>>
    /\ UNCHANGED dbMode

\* lines 151-165: try to persist the interaction
interpret_persist ==
    /\ pc = "persist"
    /\ \E raises \in BOOLEAN, now \in Timestamps :
          LET doc == MakeDoc(req.body, transcript, intent, response_text, now)
              tried == TryPersist(doc, dbMode, raises)
          IN  /\ calls' = tried.calls
              /\ outcome' = [import |-> tried.import, call |-> tried.call,
                             errlen |-> 0, ncoll |-> 0]
              /\ IF tried.propagates
                 THEN /\ resp' = [status |-> 500,
                                  body |-> [detail |-> "Internal Server Error"]]
                      /\ pc' = "done"
                 ELSE /\ resp' = resp
                      /\ pc' = "return"
    /\ UNCHANGED <<req, transcript, intent, response_text, dbMode>>

\* line 167
interpret_return ==
    /\ pc = "return"
    /\ resp' = [status |-> 200, body |-> MakeResponse(response_text, intent)]
    /\ pc' = "done"
    /\ UNCHANGED <<req, transcript, intent, response_text, calls, outcome, dbMode>>

\* the response has been sent; the request and the handler's locals are
\* discarded and the server waits for the next request
finish_request ==
    /\ pc = "done"
    /\ pc' = "idle"
    /\ req' = [path |-> ""]
    /\ resp' = NoResp
    /\ outcome' = NoOutcome
    /\ NoLocals
    /\ UNCHANGED dbMode

(* ------------------------------------------------------------------ *)
(* The environment                                                     *)
(* ------------------------------------------------------------------ *)

\* the database collaborator becomes available or unavailable at any moment
DbChange ==
    /\ \E m \in DbModes \ {dbMode} : dbMode' = m
    /\ UNCHANGED <<pc, req, transcript, intent, response_text, calls, outcome, resp>>

Next ==
    \/ read_root
    \/ hello
    \/ test_database
    \/ list_lessons
    \/ interpret_begin
    \/ interpret_persist
    \/ interpret_return
    \/ finish_request
    \/ DbChange

Spec == Init /\ [][Next]_vars

(* ------------------------------------------------------------------ *)
(* Properties                                                          *)
(* ------------------------------------------------------------------ *)

\* the handler of req has produced its response
Done == pc = "done"

IsInterpret == req.path = "/api/interpret"

HasTranscript == IsInterpret /\ "transcript" \in DOMAIN req.body

\* empty, or whitespace only
Blank(t) == \A i \in 1..Len(t) : t[i] \in Whitespace

\* the transcript of req passes validation
Accepted == HasTranscript /\ ~Blank(req.body.transcript)

Answered200 == Done /\ IsInterpret /\ resp.status = 200

\* d is t without its leading and trailing whitespace
IsTrimOf(d, t) ==
    /\ d # <<>>
    /\ d[1] \notin Whitespace
    /\ d[Len(d)] \notin Whitespace
    /\ \E a \in 0..(Len(t) - Len(d)) :
          /\ SubSeq(t, a + 1, a + Len(d)) = d
          /\ \A i \in 1..Len(t) : (i <= a \/ i > a + Len(d)) => t[i] \in Whitespace

Intents ==
    {"session.start", "lesson.list", "lesson.math", "session.stop",
     "greeting", "general.query"}

\* C1: an accepted transcript is answered 200 with the intent and text its
\* classification gives, whatever the persistence attempt did (module missing,
\* import or create_document raising, create_document returning) and whatever
\* was handled before.
C1_ResponseIgnoresPersistence ==
    (Done /\ Accepted) =>
        LET found == Classify(Lower(Strip(req.body.transcript)))
        IN  /\ resp.status = 200
            /\ resp.body.intent = found.intent
            /\ resp.body.ai_response = found.response_text

C1_Witness ==
    /\ Done /\ Accepted
    /\ outcome.call = "raised"
    /\ resp.status = 200

\* predicate k of the claim, in its order, over a lower-cased transcript
Matches(lower, k) ==
    CASE k = 1 -> \E w \in {kwStart, kwBegin, kwGo} : Contains(lower, w)
      [] k = 2 -> Contains(lower, kwList) /\ Contains(lower, kwLesson)
      [] k = 3 -> \E w \in {kwMath, kwAdd, kwSubtract, kwPlus, kwMinus} :
                      Contains(lower, w)
      [] k = 4 -> \E w \in {kwStop, kwEnd, kwPause} : Contains(lower, w)
      [] k = 5 -> \E w \in {kwHello, kwHi, kwHey} : Contains(lower, w)

PredicateAnswer ==
    << [intent |-> "session.start", ai_response |-> StartText],
       [intent |-> "lesson.list", ai_response |-> ListText],
       [intent |-> "lesson.math", ai_response |-> MathText],
       [intent |-> "session.stop", ai_response |-> StopText],
       [intent |-> "greeting", ai_response |-> GreetText] >>

\* answer is what the first matching predicate is bound to
FirstMatchAnswers(lower, answer) ==
    /\ \A k \in 1..5 :
          (Matches(lower, k) /\ \A j \in 1..(k - 1) : ~Matches(lower, j)) =>
              /\ answer.intent = PredicateAnswer[k].intent
              /\ answer.ai_response = PredicateAnswer[k].ai_response
    /\ (\A k \in 1..5 : ~Matches(lower, k)) =>
          /\ answer.intent = "general.query"
          /\ answer.ai_response = DefaultText
    /\ (Contains(lower, kwHello) /\ \A j \in 1..4 : ~Matches(lower, j)) =>
          answer.intent = "greeting"

\* C2: an accepted transcript gets the intent and text of the first predicate
\* that matches its lower-cased form in the order start/begin/go, list+lesson,
\* math words, stop/end/pause, hello/hi/hey, and general.query when none
\* matches; "hello" with no keyword of predicates 1-4 gives greeting and
\* "hello, let's start math" gives session.start.
C2_FirstMatchWins ==
    (Done /\ Accepted) =>
        /\ resp.status = 200
        /\ FirstMatchAnswers(Lower(Strip(req.body.transcript)), resp.body)
        /\ req.body.transcript = HelloStartMath =>
              resp.body.intent = "session.start"

C2_Witness ==
    /\ Done /\ Accepted
    /\ req.body.transcript = HelloStartMath
    /\ resp.body.intent = "session.start"

\* C3: an empty or whitespace-only transcript is answered 400 with detail
\* "Transcript is required" and no InterpretResponse; the handler never goes
\* on to persist or return with it.
C3_BlankIs400 ==
    /\ (Done /\ HasTranscript /\ Blank(req.body.transcript)) =>
          resp = [status |-> 400, body |-> [detail |-> "Transcript is required"]]
    /\ (pc \in {"persist", "return"}) => Accepted

C3_Witness ==
    /\ Done /\ HasTranscript
    /\ req.body.transcript = ThreeSpaces
    /\ resp.status = 400

\* C4: a request whose transcript field is missing is answered 400, like a
\* blank transcript.
C4_MissingIs400 ==
    (Done /\ IsInterpret /\ "transcript" \notin DOMAIN req.body) =>
        resp.status = 400

\* C5: the intent of every InterpretResponse returned and of every interaction
\* record passed to create_document is one of the six fixed labels.
C5_IntentInFixedSet ==
    /\ Answered200 => resp.body.intent \in Intents
    /\ \A i \in 1..Len(calls) : calls[i].document.intent \in Intents

C5_Witness ==
    /\ Answered200
    /\ resp.body.intent = "general.query"
    /\ calls # <<>>
    /\ calls[1].document.intent = "general.query"

\* C6: create_document is only invoked after validation has passed: every
\* record handed over carries the trimmed, non-empty transcript of an accepted
\* request, and a request answered 400 caused no call.
C6_PersistOnlyValidated ==
    /\ calls # <<>> => Accepted
    /\ \A i \in 1..Len(calls) :
          IsTrimOf(calls[i].document.transcript, req.body.transcript)
    /\ (Done /\ IsInterpret /\ resp.status = 400) => calls = <<>>

C6_Witness ==
    /\ Done /\ Accepted
    /\ calls # <<>>
    /\ Len(calls[1].document.transcript) < Len(req.body.transcript)

\* C7: GET /api/lessons answers, in every state of the database and after any
\* requests, 200 with exactly the three lessons voice-basics,
\* math-fundamentals, science-reading in that order.
C7_LessonsFixed ==
    (Done /\ req.path = "/api/lessons") =>
        /\ resp.status = 200
        /\ Len(resp.body) = 3
        /\ resp.body[1].id = "voice-basics"
        /\ resp.body[2].id = "math-fundamentals"
        /\ resp.body[3].id = "science-reading"

C7_Witness ==
    /\ Done
    /\ req.path = "/api/lessons"
    /\ Len(resp.body) = 3
    /\ dbMode = "no_module"

\* C8: every 200 response of interpret, on every classification branch, has
\* confidence 0.72 (not the model default 0.7) and empty metadata.
C8_ConfidenceFixed ==
    Answered200 =>
        /\ resp.body.confidence = 72
        /\ resp.body.confidence # 70
        /\ resp.body.metadata = <<>>

C8_Witness ==
    /\ Answered200
    /\ resp.body.intent = "general.query"
    /\ resp.body.confidence = 72

Min(a, b) == IF a < b THEN a ELSE b

\* C9: GET /test always answers 200; a failure of the database collaborator
\* (module missing, import raising, db None, list_collection_names raising) is
\* rendered into the database field, the error text cut to at most 50
\* characters, and collections holds at most 10 names.
C9_DiagnosticNeverFails ==
    (Done /\ req.path = "/test") =>
        LET db == resp.body.database
        IN  /\ resp.status = 200
            /\ Len(db.detail) <= 50
            /\ Len(resp.body.collections) <= 10
            /\ outcome.import = "no_module" =>
                  db = [text |-> "Database module not found", detail |-> <<>>]
            /\ outcome.import = "import_error" =>
                  /\ db.text = "Error: "
                  /\ db.detail = SubSeq(ErrText(outcome.errlen), 1, Min(outcome.errlen, 50))
            /\ outcome.import = "none" =>
                  db = [text |-> "Available but not initialized", detail |-> <<>>]
            /\ outcome.call = "raised" =>
                  /\ db.text = "Connected but Error: "
                  /\ db.detail = SubSeq(ErrText(outcome.errlen), 1, Min(outcome.errlen, 50))
                  /\ resp.body.collections = <<>>
            /\ outcome.call = "returned" =>
                  /\ db = [text |-> "Connected & Working", detail |-> <<>>]
                  /\ Len(resp.body.collections) = Min(outcome.ncoll, 10)

C9_Witness ==
    /\ Done
    /\ req.path = "/test"
    /\ outcome.call = "raised"
    /\ outcome.errlen > 50
    /\ Len(resp.body.database.detail) = 50

\* the other case of C9: more than 10 collections, 10 reported
C9_WitnessCollections ==
    /\ Done
    /\ req.path = "/test"
    /\ outcome.call = "returned"
    /\ outcome.ncoll > 10
    /\ Len(resp.body.collections) = 10

C10_State ==
    /\ Len(calls) <= 1
    /\ \A i \in 1..Len(calls) : calls[i].collection = "interaction"
    /\ Answered200 =>
          \A i \in 1..Len(calls) :
              /\ calls[i].document.intent = resp.body.intent
              /\ calls[i].document.ai_response = resp.body.ai_response

C10_Step ==
    (calls' # calls /\ calls' # <<>>) =>
        /\ Accepted
        /\ resp.status = 0
        /\ resp'.status # 200

\* C10: for an accepted request create_document is called at most once, with
\* collection "interaction" and a record whose intent and ai_response are
\* those of the response returned for that request; the call is made before
\* the response exists, and a call that raised is not repeated.
C10_PersistOnceBeforeResponse == [](C10_State) /\ [][C10_Step]_vars

C10_Witness ==
    /\ Answered200
    /\ Len(calls) = 1
    /\ calls[1].result = "raised"
    /\ calls[1].document.intent = resp.body.intent

====
